---- MODULE Spec2Model ----
(***************************************************************************)
(* Rule execution engine of src/app.py: SearchRule, and the methods        *)
(* search_with_params, execute_rules and remove_duplicates of              *)
(* EnhancedDJESearcher.  One execute_rules call is modelled as a           *)
(* sequential program whose environment (the HTTP endpoint) chooses the    *)
(* status of every response.                                               *)
(***************************************************************************)
EXTENDS Integers, Sequences, FiniteSets, TLC

VARIABLES
    rules,                 \* the rule list handed to execute_rules
    given,                 \* given[i]: the parameter mapping rule i was constructed with
    limit,                 \* the 429 answers the endpoint gives one rule at most
    earlier,               \* the calls of execute_rules already made on this engine: what
                           \* search_with_params returned in each and what the call returned
    api,                   \* api[i]: the non-empty pages the endpoint holds for rule i's query
    cb,                    \* whether a progress_callback was supplied
    pc,                    \* position of the call: "rules" | "page" | "wait" | "fold" | "done"
    idx,                   \* index of the rule the for loop of execute_rules is at
    rule_params,           \* execute_rules: the per-rule copy of rule.parameters
    search_params,         \* search_with_params: the query parameters of the next request
    publications,          \* search_with_params: items accumulated for the current rule
    include_publications,  \* execute_rules: include accumulator
    exclude_publications,  \* execute_rules: exclude accumulator
    final_publications,    \* the list execute_rules returns
    inflight,              \* the requests sent and not yet answered
    log,                   \* what was observable since the current rule was started, in
                           \* order: progress messages, requests, responses, sleeps
    errors,                \* the messages shown with st.error during the call, in order
    queried,               \* the rules (by index) a request was sent for
    returned,              \* what search_with_params returned, rule by rule, in order
    retries                \* number of 429 answers to the current rule (at most limit)

vars == <<rules, given, limit, earlier, api, cb, pc, idx, rule_params, search_params, publications,
          include_publications, exclude_publications, final_publications,
          inflight, log, errors, queried, returned, retries>>

-----------------------------------------------------------------------------
(* Bounds of the model *)

MaxRules == 2

MaxPages == 2

MaxPageLen == 1

\* pages a query has under SpecKeys
KeyPages == 1

\* rules in a list under the specifications with one rule at most
SoloRules == 1

\* items on a page under SpecDedup
DedupPageLen == 3

\* 429 answers the endpoint gives one rule at most
MaxRetries == 1

\* the same under SpecRetry
LongRetries == 3

\* calls of execute_rules made on one engine under SpecTwice
MaxCalls == 2

-----------------------------------------------------------------------------
(* Program constants *)

ItensPorPagina == 50

FirstPage == 1

RateLimitSleep == 10

\* time.sleep(0.5), in tenths of a time unit
CourtesySleepTenths == 5

-----------------------------------------------------------------------------
(* Python values.  s is what str() / an f-string renders, n the value of   *)
(* an int.  Absent is not a value: it marks a key a dict does not hold.    *)

PyStr(x) == [t |-> "str", s |-> x, n |-> 0]

PyInt(k) == [t |-> "int", s |-> ToString(k), n |-> k]

PyNone == [t |-> "none", s |-> "None", n |-> 0]

Absent == [t |-> "absent", s |-> "", n |-> 0]

\* Python truthiness of a value: None, "" and 0 are falsy
Truthy(v) ==
    \/ v.t = "str" /\ v.s # ""
    \/ v.t = "int" /\ v.n # 0

\* dict.get(key, default) on an item (a record holding Absent for a missing key)
Get(pub, key, default) == IF pub[key] = Absent THEN default ELSE pub[key]

\* dict.get(key): the default is None
Get1(pub, key) == Get(pub, key, PyNone)

\* d.copy() followed by d[k] = v, on a dict modelled as a function
DictSet(d, k, v) == [x \in DOMAIN d \cup {k} |-> IF x = k THEN v ELSE d[x]]

-----------------------------------------------------------------------------
(* SearchRule *)

\* __post_init__ as it would be with the test `if v`: every falsy value is dropped
PostInitTruthy(parameters) ==
    LET keep == {k \in DOMAIN parameters : Truthy(parameters[k])}
    IN  [k \in keep |-> parameters[k]]

\* __post_init__: drop the entries whose value is None or ""
PostInit(parameters) ==
    LET keep == {k \in DOMAIN parameters :
                    parameters[k] # PyNone /\ parameters[k] # PyStr("")}
    IN  [k \in keep |-> parameters[k]]

\* the dataclass constructor SearchRule(name, rule_type, operator, enabled, parameters)
SearchRule(name, rule_type, operator, enabled, parameters) ==
    [name |-> name, rule_type |-> rule_type, operator |-> operator,
     enabled |-> enabled, parameters |-> PostInit(parameters)]

-----------------------------------------------------------------------------
(* remove_duplicates *)

\* f"{pub.get('id', '')}_{pub.get('numeroprocessocommascara', '')}"
UniqueId(pub) ==
    PyStr(Get(pub, "id", PyStr("")).s \o "_"
          \o Get(pub, "numeroprocessocommascara", PyStr("")).s)

RECURSIVE DedupLoop(_, _, _, _)
\* the for loop of remove_duplicates from position i on
DedupLoop(pubs, i, seen_hashes, unique_publications) ==
    IF i > Len(pubs) THEN unique_publications
    ELSE LET pub == pubs[i]
             pub_hash == Get1(pub, "hash")
         IN  IF Truthy(pub_hash) /\ pub_hash \notin seen_hashes
             THEN DedupLoop(pubs, i + 1, seen_hashes \cup {pub_hash},
                            Append(unique_publications, pub))
             ELSE IF ~Truthy(pub_hash)
             THEN IF UniqueId(pub) \notin seen_hashes
                  THEN DedupLoop(pubs, i + 1, seen_hashes \cup {UniqueId(pub)},
                                 Append(unique_publications, pub))
                  ELSE DedupLoop(pubs, i + 1, seen_hashes, unique_publications)
             ELSE DedupLoop(pubs, i + 1, seen_hashes, unique_publications)

RECURSIVE DedupHashOnly(_, _, _, _)
\* remove_duplicates as it would be without the branch for items lacking a hash:
\* such items are all kept
DedupHashOnly(pubs, i, seen_hashes, unique_publications) ==
    IF i > Len(pubs) THEN unique_publications
    ELSE LET pub == pubs[i]
             pub_hash == Get1(pub, "hash")
         IN  IF Truthy(pub_hash) /\ pub_hash \in seen_hashes
             THEN DedupHashOnly(pubs, i + 1, seen_hashes, unique_publications)
             ELSE DedupHashOnly(pubs, i + 1, seen_hashes \cup {pub_hash},
                                Append(unique_publications, pub))

remove_duplicates_hash_only(pubs) == DedupHashOnly(pubs, 1, {}, <<>>)

RECURSIVE DedupForgetting(_, _, _, _)
\* remove_duplicates as it would be if dropping a duplicate also removed its key
\* from seen_hashes: the next item with that key is kept again
DedupForgetting(pubs, i, seen_hashes, unique_publications) ==
    IF i > Len(pubs) THEN unique_publications
    ELSE LET pub == pubs[i]
             pub_hash == Get1(pub, "hash")
             key == IF Truthy(pub_hash) THEN pub_hash ELSE UniqueId(pub)
         IN  IF key \notin seen_hashes
             THEN DedupForgetting(pubs, i + 1, seen_hashes \cup {key},
                                  Append(unique_publications, pub))
             ELSE DedupForgetting(pubs, i + 1, seen_hashes \ {key},
                                  unique_publications)

remove_duplicates_forgetting(pubs) == DedupForgetting(pubs, 1, {}, <<>>)

remove_duplicates(pubs) == DedupLoop(pubs, 1, {}, <<>>)

-----------------------------------------------------------------------------
(* execute_rules: fusion *)

\* pub.get('hash', pub.get('id', ''))
HashOrId(pub) == Get(pub, "hash", Get(pub, "id", PyStr("")))

\* {pub.get('hash', pub.get('id', '')) for pub in pubs}
HashSet(pubs) == {HashOrId(pubs[i]) : i \in DOMAIN pubs}

\* FoldInclude putting an Or rule's items in front of the accumulator
FoldIncludePrepend(rule, inc, pubs) ==
    IF rule.operator = "or"
    THEN pubs \o inc
    ELSE IF inc = <<>>
         THEN pubs
         ELSE LET common_hashes == HashSet(inc) \cap HashSet(pubs)
                  Common(pub) == HashOrId(pub) \in common_hashes
              IN  SelectSeq(inc, Common)

\* lines 172-187: fold one rule's publications into the accumulators
FoldInclude(rule, inc, pubs) ==
    IF rule.operator = "or"
    THEN inc \o pubs
    ELSE IF inc = <<>>
         THEN pubs
         ELSE LET common_hashes == HashSet(inc) \cap HashSet(pubs)
                  Common(pub) == HashOrId(pub) \in common_hashes
              IN  SelectSeq(inc, Common)

\* lines 194-202: remove the exclusions
ApplyExclusions(inc, exc) ==
    IF exc # <<>>
    THEN LET exclude_hashes == HashSet(exc)
             NotExcluded(pub) == HashOrId(pub) \notin exclude_hashes
         IN  SelectSeq(inc, NotExcluded)
    ELSE inc

\* FinalPublications deduplicating both accumulators together and removing nothing
FinalPublicationsOfBoth(inc, exc) == remove_duplicates(inc \o exc)

\* lines 189-204: deduplicate the inclusions, then remove the exclusions
FinalPublications(inc, exc) == ApplyExclusions(remove_duplicates(inc), exc)

-----------------------------------------------------------------------------
(* The inputs of one call *)

\* the name given to the rule at position i
NameOf(i) == "R" \o ToString(i)

RuleTypes == {"include", "exclude"}

RuleOperators == {"and", "or"}

\* rule lists of n rules whose raw parameter mappings come from Raw
RuleListsOfLen(n, Raw) ==
    {[i \in 1..n |-> SearchRule(NameOf(i), f[i][1], f[i][2], f[i][3], f[i][4])] :
        f \in [1..n -> RuleTypes \X RuleOperators \X BOOLEAN \X Raw]}

RuleLists(Raw) == UNION {RuleListsOfLen(n, Raw) : n \in 0..MaxRules}

\* the items an endpoint may hold: every combination of the three fields read
ItemsOf(hs, is, cs) ==
    {[hash |-> h, id |-> i, numeroprocessocommascara |-> c] :
        h \in hs, i \in is, c \in cs}

\* a non-empty page of at most maxLen items
PagesOf(U, maxLen) == UNION {[1..l -> U] : l \in 1..maxLen}

\* what the endpoint holds for one query: at most maxPages non-empty pages
ScriptsOf(U, maxPages, maxLen) ==
    UNION {[1..k -> PagesOf(U, maxLen)] : k \in 0..maxPages}

\* the endpoint's content for every rule of rs; a disabled rule is never queried
ApisOf(rs, U, maxPages, maxLen) ==
    {a \in [DOMAIN rs -> ScriptsOf(U, maxPages, maxLen)] :
        \A i \in DOMAIN rs : ~rs[i].enabled => a[i] = <<>>}

-----------------------------------------------------------------------------
(* The call *)

\* params.get('_rule_name', 'Busca')
RuleNameOf(params) ==
    IF "_rule_name" \in DOMAIN params THEN params["_rule_name"].s ELSE "Busca"

\* the callback, when supplied, is called with msg
Progress(l, msg) == IF cb THEN Append(l, msg) ELSE l

\* items of page p of the current rule's query: dados.get("items", [])
PageItems(p) == IF p \in DOMAIN api[idx] THEN api[idx][p] ELSE <<>>

InitWith(rs, a, callbacks) ==
    /\ rules = rs
    /\ earlier = <<>>
    /\ api = a
    /\ cb \in callbacks
    /\ pc = "rules"
    /\ idx = 1
    /\ rule_params = <<>>
    /\ search_params = <<>>
    /\ publications = <<>>
    /\ include_publications = <<>>
    /\ exclude_publications = <<>>
    /\ final_publications = <<>>
    /\ inflight = <<>>
    /\ log = <<>>
    /\ errors = <<>>
    /\ queried = {}
    /\ returned = <<>>
    /\ retries = 0

\* lines 159-161: a disabled rule is skipped
SkipDisabled ==
    /\ pc = "rules"
    /\ idx <= Len(rules)
    /\ ~rules[idx].enabled
    /\ idx' = idx + 1
    /\ UNCHANGED <<rules, given, limit, earlier, api, cb, pc, rule_params, search_params, publications,
                   include_publications, exclude_publications, final_publications,
                   inflight, log, errors, queried, returned, retries>>

\* StartRule without the test of rule.enabled
StartRuleAlsoDisabled ==
    /\ pc = "rules"
    /\ idx <= Len(rules)
    /\ log' = Progress(<<>>, [ev |-> "progress", msg |-> "regra",
                              name |-> rules[idx].name])
    /\ rule_params' = DictSet(rules[idx].parameters, "_rule_name",
                              PyStr(rules[idx].name))
    /\ publications' = <<>>
    /\ search_params' = DictSet(DictSet(rule_params', "itensPorPagina",
                                        PyInt(ItensPorPagina)),
                                "pagina", PyInt(FirstPage))
    /\ retries' = 0
    /\ pc' = "page"
    /\ UNCHANGED <<rules, given, limit, earlier, api, cb, idx, include_publications, exclude_publications,
                   final_publications, inflight, errors, queried, returned>>

\* StartRule without rule.parameters.copy(): the tag is written into the rule's
\* own parameter dict
StartRuleNoCopy ==
    /\ pc = "rules"
    /\ idx <= Len(rules)
    /\ rules[idx].enabled
    /\ log' = Progress(<<>>, [ev |-> "progress", msg |-> "regra",
                              name |-> rules[idx].name])
    /\ rule_params' = DictSet(rules[idx].parameters, "_rule_name",
                              PyStr(rules[idx].name))
    /\ rules' = [rules EXCEPT ![idx].parameters = rule_params']
    /\ publications' = <<>>
    /\ search_params' = DictSet(DictSet(rule_params', "itensPorPagina",
                                        PyInt(ItensPorPagina)),
                                "pagina", PyInt(FirstPage))
    /\ retries' = 0
    /\ pc' = "page"
    /\ UNCHANGED <<given, limit, earlier, api, cb, idx, include_publications, exclude_publications,
                   final_publications, inflight, errors, queried, returned>>

\* lines 163-170 and 113-120: an enabled rule is started
StartRule ==
    /\ pc = "rules"
    /\ idx <= Len(rules)
    /\ rules[idx].enabled
    /\ log' = Progress(<<>>, [ev |-> "progress", msg |-> "regra",
                              name |-> rules[idx].name])
    /\ rule_params' = DictSet(rules[idx].parameters, "_rule_name",
                              PyStr(rules[idx].name))
    /\ publications' = <<>>
    /\ search_params' = DictSet(DictSet(rule_params', "itensPorPagina",
                                        PyInt(ItensPorPagina)),
                                "pagina", PyInt(FirstPage))
    /\ retries' = 0
    /\ pc' = "page"
    /\ UNCHANGED <<rules, given, limit, earlier, api, cb, idx, include_publications, exclude_publications,
                   final_publications, inflight, errors, queried, returned>>

\* SendRequest not blocking on the answer: a request is also sent while another is
\* in flight
SendRequestNoWait ==
    /\ pc \in {"page", "wait"}
    /\ log' = Append(Progress(log, [ev |-> "progress", msg |-> "pagina",
                                    name |-> RuleNameOf(rule_params),
                                    pagina |-> search_params["pagina"].n]),
                     [ev |-> "request", params |-> search_params])
    /\ inflight' = Append(inflight, search_params)
    /\ queried' = queried \cup {idx}
    /\ pc' = "wait"
    /\ UNCHANGED <<rules, given, limit, earlier, api, cb, idx, rule_params, search_params,
                   publications, include_publications, exclude_publications,
                   final_publications, errors, returned, retries>>

\* SendRequest calling the callback for the first attempt of a page only, not for
\* the retry after a 429 answer
SendRequestQuietRetry ==
    /\ pc = "page"
    /\ log' = Append(IF log # <<>> /\ log[Len(log)].ev = "sleep"
                        /\ log[Len(log)].tenths = RateLimitSleep * 10
                     THEN log
                     ELSE Progress(log, [ev |-> "progress", msg |-> "pagina",
                                         name |-> RuleNameOf(rule_params),
                                         pagina |-> search_params["pagina"].n]),
                     [ev |-> "request", params |-> search_params])
    /\ inflight' = Append(inflight, search_params)
    /\ queried' = queried \cup {idx}
    /\ pc' = "wait"
    /\ UNCHANGED <<rules, given, limit, earlier, api, cb, idx, rule_params, search_params,
                   publications, include_publications, exclude_publications,
                   final_publications, errors, returned, retries>>

\* lines 123-127: the progress message and the GET request of one page
SendRequest ==
    /\ pc = "page"
    /\ log' = Append(Progress(log, [ev |-> "progress", msg |-> "pagina",
                                    name |-> RuleNameOf(rule_params),
                                    pagina |-> search_params["pagina"].n]),
                     [ev |-> "request", params |-> search_params])
    /\ inflight' = Append(inflight, search_params)
    /\ queried' = queried \cup {idx}
    /\ pc' = "wait"
    /\ UNCHANGED <<rules, given, limit, earlier, api, cb, idx, rule_params, search_params, publications,
                   include_publications, exclude_publications, final_publications,
                   errors, returned, retries>>

\* Respond200Items assigning the page to publications instead of extending it
Respond200ItemsReplace ==
    /\ pc = "wait"
    /\ LET items == PageItems(search_params["pagina"].n)
       IN  /\ items # <<>>
           /\ publications' = items
           /\ search_params' = DictSet(search_params, "pagina",
                                       PyInt(search_params["pagina"].n + 1))
           /\ log' = log \o <<[ev |-> "response", status |-> 200, items |-> items],
                              [ev |-> "sleep", tenths |-> CourtesySleepTenths]>>
    /\ inflight' = Tail(inflight)
    /\ pc' = "page"
    /\ UNCHANGED <<rules, given, limit, earlier, api, cb, idx, rule_params, include_publications,
                   exclude_publications, final_publications, errors, queried,
                   returned, retries>>

\* lines 129-138: status 200 with a non-empty item list
Respond200Items ==
    /\ pc = "wait"
    /\ LET items == PageItems(search_params["pagina"].n)
       IN  /\ items # <<>>
           /\ publications' = publications \o items
           /\ search_params' = DictSet(search_params, "pagina",
                                       PyInt(search_params["pagina"].n + 1))
           /\ log' = log \o <<[ev |-> "response", status |-> 200, items |-> items],
                              [ev |-> "sleep", tenths |-> CourtesySleepTenths]>>
    /\ inflight' = Tail(inflight)
    /\ pc' = "page"
    /\ UNCHANGED <<rules, given, limit, earlier, api, cb, idx, rule_params, include_publications,
                   exclude_publications, final_publications, errors, queried,
                   returned, retries>>

\* lines 129-134 and 152: status 200 with no item ends the pagination
Respond200Empty ==
    /\ pc = "wait"
    /\ PageItems(search_params["pagina"].n) = <<>>
    /\ log' = Append(log, [ev |-> "response", status |-> 200, items |-> <<>>])
    /\ inflight' = Tail(inflight)
    /\ pc' = "fold"
    /\ UNCHANGED <<rules, given, limit, earlier, api, cb, idx, rule_params, search_params, publications,
                   include_publications, exclude_publications, final_publications,
                   errors, queried, returned, retries>>

\* Respond429 advancing the page counter as a 200 answer does
Respond429Advance ==
    /\ pc = "wait"
    /\ retries < limit
    /\ retries' = retries + 1
    /\ log' = Append(Progress(Append(log, [ev |-> "response", status |-> 429]),
                              [ev |-> "progress", msg |-> "rate_limit"]),
                     [ev |-> "sleep", tenths |-> RateLimitSleep * 10])
    /\ inflight' = Tail(inflight)
    /\ pc' = "page"
    /\ search_params' = DictSet(search_params, "pagina",
                                PyInt(search_params["pagina"].n + 1))
    /\ UNCHANGED <<rules, given, limit, earlier, api, cb, idx, rule_params, publications,
                   include_publications, exclude_publications, final_publications,
                   errors, queried, returned>>

\* Respond429 with a ceiling of two retries: the third 429 answer to a rule is
\* reported as any other status and ends the pagination
Respond429Ceiling ==
    /\ pc = "wait"
    /\ retries < limit
    /\ retries' = retries + 1
    /\ inflight' = Tail(inflight)
    /\ IF retries < 2
       THEN /\ log' = Append(Progress(Append(log, [ev |-> "response", status |-> 429]),
                                      [ev |-> "progress", msg |-> "rate_limit"]),
                             [ev |-> "sleep", tenths |-> RateLimitSleep * 10])
            /\ pc' = "page"
            /\ errors' = errors
       ELSE /\ log' = Append(log, [ev |-> "response", status |-> 429])
            /\ pc' = "fold"
            /\ errors' = Append(errors, [msg |-> "busca",
                                         name |-> RuleNameOf(rule_params),
                                         detail |-> ToString(429)])
    /\ UNCHANGED <<rules, given, limit, earlier, api, cb, idx, rule_params, search_params,
                   publications, include_publications, exclude_publications,
                   final_publications, queried, returned>>

\* lines 140-143: status 429, wait and ask for the same page again
Respond429 ==
    /\ pc = "wait"
    /\ retries < limit
    /\ retries' = retries + 1
    /\ log' = Append(Progress(Append(log, [ev |-> "response", status |-> 429]),
                              [ev |-> "progress", msg |-> "rate_limit"]),
                     [ev |-> "sleep", tenths |-> RateLimitSleep * 10])
    /\ inflight' = Tail(inflight)
    /\ pc' = "page"
    /\ UNCHANGED <<rules, given, limit, earlier, api, cb, idx, rule_params, search_params, publications,
                   include_publications, exclude_publications, final_publications,
                   errors, queried, returned>>

\* statuses other than 200 and 429 the endpoint may answer
OtherStatuses == {500}

\* RespondOther returning an empty list instead of the items accumulated
RespondOtherDiscard ==
    /\ pc = "wait"
    /\ \E status \in OtherStatuses :
          /\ log' = Append(log, [ev |-> "response", status |-> status])
          /\ errors' = Append(errors, [msg |-> "busca",
                                       name |-> RuleNameOf(rule_params),
                                       detail |-> ToString(status)])
    /\ inflight' = Tail(inflight)
    /\ pc' = "fold"
    /\ publications' = <<>>
    /\ UNCHANGED <<rules, given, limit, earlier, api, cb, idx, rule_params, search_params,
                   include_publications, exclude_publications, final_publications,
                   queried, returned, retries>>

\* lines 144-146 and 152: any other status is shown as an error and ends the pagination
RespondOther ==
    /\ pc = "wait"
    /\ \E status \in OtherStatuses :
          /\ log' = Append(log, [ev |-> "response", status |-> status])
          /\ errors' = Append(errors, [msg |-> "busca",
                                       name |-> RuleNameOf(rule_params),
                                       detail |-> ToString(status)])
    /\ inflight' = Tail(inflight)
    /\ pc' = "fold"
    /\ UNCHANGED <<rules, given, limit, earlier, api, cb, idx, rule_params, search_params, publications,
                   include_publications, exclude_publications, final_publications,
                   queried, returned, retries>>

\* what str(e) may be when requests.get raises
Exceptions == {"timeout"}

\* RequestException without the except clause: the exception ends execute_rules
RequestExceptionEscapes ==
    /\ pc = "wait"
    /\ \E e \in Exceptions :
          /\ log' = Append(log, [ev |-> "raised", e |-> e])
          /\ errors' = Append(errors, [msg |-> "requisicao",
                                       name |-> RuleNameOf(rule_params),
                                       detail |-> e])
    /\ inflight' = Tail(inflight)
    /\ pc' = "done"
    /\ UNCHANGED <<rules, given, limit, earlier, api, cb, idx, rule_params, search_params, publications,
                   include_publications, exclude_publications, final_publications,
                   queried, returned, retries>>

\* RequestException without the except clause: the exception leaves execute_rules,
\* which then returns nothing
RequestExceptionUncaught ==
    /\ pc = "wait"
    /\ \E e \in Exceptions :
          log' = Append(log, [ev |-> "raised", e |-> e])
    /\ inflight' = Tail(inflight)
    /\ pc' = "raised"
    /\ UNCHANGED <<rules, given, limit, earlier, api, cb, idx, rule_params, search_params, publications,
                   include_publications, exclude_publications, final_publications,
                   errors, queried, returned, retries>>

\* lines 148-150 and 152: requests.get raises (timeout, connection error)
RequestException ==
    /\ pc = "wait"
    /\ \E e \in Exceptions :
          /\ log' = Append(log, [ev |-> "raised", e |-> e])
          /\ errors' = Append(errors, [msg |-> "requisicao",
                                       name |-> RuleNameOf(rule_params),
                                       detail |-> e])
    /\ inflight' = Tail(inflight)
    /\ pc' = "fold"
    /\ UNCHANGED <<rules, given, limit, earlier, api, cb, idx, rule_params, search_params, publications,
                   include_publications, exclude_publications, final_publications,
                   queried, returned, retries>>

\* FoldRule folding an Exclude rule's items as an Include rule's
FoldRuleAllInclude ==
    /\ pc = "fold"
    /\ IF rules[idx].rule_type \in {"include", "exclude"}
       THEN /\ include_publications' =
                   FoldInclude(rules[idx], include_publications, publications)
            /\ UNCHANGED exclude_publications
       ELSE IF rules[idx].rule_type = "exclude"
       THEN /\ exclude_publications' = exclude_publications \o publications
            /\ UNCHANGED include_publications
       ELSE UNCHANGED <<include_publications, exclude_publications>>
    /\ returned' = Append(returned, [rule |-> idx, items |-> publications])
    /\ idx' = idx + 1
    /\ pc' = "rules"
    /\ UNCHANGED <<rules, given, limit, earlier, api, cb, rule_params, search_params, publications,
                   final_publications, inflight, log, errors, queried, retries>>

\* FoldRule applying the operator to an Exclude rule as to an Include rule
FoldRuleExcludeOperator ==
    /\ pc = "fold"
    /\ IF rules[idx].rule_type = "include"
       THEN /\ include_publications' =
                   FoldInclude(rules[idx], include_publications, publications)
            /\ UNCHANGED exclude_publications
       ELSE IF rules[idx].rule_type = "exclude"
       THEN /\ exclude_publications' =
                   FoldInclude(rules[idx], exclude_publications, publications)
            /\ UNCHANGED include_publications
       ELSE UNCHANGED <<include_publications, exclude_publications>>
    /\ returned' = Append(returned, [rule |-> idx, items |-> publications])
    /\ idx' = idx + 1
    /\ pc' = "rules"
    /\ UNCHANGED <<rules, given, limit, earlier, api, cb, rule_params, search_params, publications,
                   final_publications, inflight, log, errors, queried, retries>>

\* FoldRule applying an Exclude rule's exclusions at once, to the include
\* accumulator as it stands when the rule has run
FoldRuleExcludeAtOnce ==
    /\ pc = "fold"
    /\ IF rules[idx].rule_type = "include"
       THEN /\ include_publications' =
                   FoldInclude(rules[idx], include_publications, publications)
            /\ UNCHANGED exclude_publications
       ELSE IF rules[idx].rule_type = "exclude"
       THEN /\ include_publications' =
                   ApplyExclusions(include_publications, publications)
            /\ UNCHANGED exclude_publications
       ELSE UNCHANGED <<include_publications, exclude_publications>>
    /\ returned' = Append(returned, [rule |-> idx, items |-> publications])
    /\ idx' = idx + 1
    /\ pc' = "rules"
    /\ UNCHANGED <<rules, given, limit, earlier, api, cb, rule_params, search_params,
                   publications, final_publications, inflight, log, errors, queried,
                   retries>>

\* lines 170-187: search_with_params has returned; its list is folded
FoldRule ==
    /\ pc = "fold"
    /\ IF rules[idx].rule_type = "include"
       THEN /\ include_publications' =
                   FoldInclude(rules[idx], include_publications, publications)
            /\ UNCHANGED exclude_publications
       ELSE IF rules[idx].rule_type = "exclude"
       THEN /\ exclude_publications' = exclude_publications \o publications
            /\ UNCHANGED include_publications
       ELSE UNCHANGED <<include_publications, exclude_publications>>
    /\ returned' = Append(returned, [rule |-> idx, items |-> publications])
    /\ idx' = idx + 1
    /\ pc' = "rules"
    /\ UNCHANGED <<rules, given, limit, earlier, api, cb, rule_params, search_params, publications,
                   final_publications, inflight, log, errors, queried, retries>>

\* lines 189-204: after the last rule
Finish ==
    /\ pc = "rules"
    /\ idx > Len(rules)
    /\ final_publications' =
           FinalPublications(include_publications, exclude_publications)
    /\ log' =
           LET l1 == Progress(<<>>, [ev |-> "progress", msg |-> "duplicatas"])
           IN  IF exclude_publications # <<>>
               THEN Progress(l1, [ev |-> "progress", msg |-> "exclusoes"])
               ELSE l1
    /\ pc' = "done"
    /\ UNCHANGED <<rules, given, limit, earlier, api, cb, idx, rule_params, search_params, publications,
                   include_publications, exclude_publications, inflight, errors,
                   queried, returned, retries>>

Next ==
    \/ SkipDisabled
    \/ StartRule
    \/ SendRequest
    \/ Respond200Items
    \/ Respond200Empty
    \/ Respond429
    \/ RespondOther
    \/ RequestException
    \/ FoldRule
    \/ Finish

-----------------------------------------------------------------------------
(* Answers with status 200 whose body is a JSON object with no list under
   "items" *)

\* what such a body holds under "items": nothing, null, or a number
NonListItems == {Absent, PyNone, PyInt(0), PyInt(5)}

\* dados.get("items", []) on a body holding v under "items"; the empty list is
\* falsy as None is
ItemsOfBody(v) == IF v = Absent THEN PyNone ELSE v

\* lines 129-134 and 152: `not items` holds, the pagination ends as on an empty page
Respond200NoItems ==
    /\ pc = "wait"
    /\ \E v \in NonListItems :
          /\ ~Truthy(ItemsOfBody(v))
          /\ log' = Append(log, [ev |-> "response", status |-> 200, body |-> v])
    /\ inflight' = Tail(inflight)
    /\ pc' = "fold"
    /\ UNCHANGED <<rules, given, limit, earlier, api, cb, idx, rule_params, search_params, publications,
                   include_publications, exclude_publications, final_publications,
                   errors, queried, returned, retries>>

\* lines 129-136, 148-150 and 152: `not items` fails, publications.extend(items)
\* raises TypeError on a number, and the except clause reports it and breaks
Respond200BadItems ==
    /\ pc = "wait"
    /\ \E v \in NonListItems :
          /\ Truthy(ItemsOfBody(v))
          /\ log' = log \o <<[ev |-> "response", status |-> 200, body |-> v],
                             [ev |-> "raised", e |-> "TypeError"]>>
    /\ errors' = Append(errors, [msg |-> "requisicao",
                                 name |-> RuleNameOf(rule_params),
                                 detail |-> "TypeError"])
    /\ inflight' = Tail(inflight)
    /\ pc' = "fold"
    /\ UNCHANGED <<rules, given, limit, earlier, api, cb, idx, rule_params, search_params, publications,
                   include_publications, exclude_publications, final_publications,
                   queried, returned, retries>>

\* execute_rules against an endpoint that may also answer such bodies
NextBodies ==
    \/ Next
    \/ Respond200NoItems
    \/ Respond200BadItems

-----------------------------------------------------------------------------
(* A further call of execute_rules on the same engine, with the same rule list *)

\* CallAgain with the accumulators kept on the engine from call to call instead
\* of being locals set to [] at entry
CallAgainKeepsAccumulators ==
    /\ pc = "done"
    /\ Len(earlier) + 1 < MaxCalls
    /\ earlier' = Append(earlier, [returned |-> returned,
                                   final |-> final_publications])
    /\ pc' = "rules"
    /\ idx' = 1
    /\ rule_params' = <<>>
    /\ search_params' = <<>>
    /\ publications' = <<>>
    /\ final_publications' = <<>>
    /\ log' = <<>>
    /\ errors' = <<>>
    /\ queried' = {}
    /\ returned' = <<>>
    /\ retries' = 0
    /\ UNCHANGED <<rules, given, limit, api, cb, inflight, include_publications,
                   exclude_publications>>

\* lines 154-157: execute_rules is entered again; its accumulators are new empty
\* lists, and the engine holds nothing of the call before (lines 106-109)
CallAgain ==
    /\ pc = "done"
    /\ Len(earlier) + 1 < MaxCalls
    /\ earlier' = Append(earlier, [returned |-> returned,
                                   final |-> final_publications])
    /\ pc' = "rules"
    /\ idx' = 1
    /\ rule_params' = <<>>
    /\ search_params' = <<>>
    /\ publications' = <<>>
    /\ include_publications' = <<>>
    /\ exclude_publications' = <<>>
    /\ final_publications' = <<>>
    /\ log' = <<>>
    /\ errors' = <<>>
    /\ queried' = {}
    /\ returned' = <<>>
    /\ retries' = 0
    /\ UNCHANGED <<rules, given, limit, api, cb, inflight>>

\* calls of execute_rules one after another
NextTwice ==
    \/ Next
    \/ CallAgain

-----------------------------------------------------------------------------
(* Specification Spec: every rule list, paginated queries, two items *)

\* raw parameter mappings of the rules (the example of the documentation)
RawParams == {[numeroOab |-> PyStr(""), ufOab |-> PyStr("ES")]}

Hashes == {PyStr("h1"), PyStr("h2")}

Ids == {PyInt(1)}

Numeros == {PyStr("X")}

Items == ItemsOf(Hashes, Ids, Numeros)

Init ==
    \E raw \in RawParams :
        \E rs \in RuleLists({raw}) :
            \E a \in ApisOf(rs, Items, MaxPages, MaxPageLen) :
                /\ InitWith(rs, a, BOOLEAN)
                /\ given = [i \in DOMAIN rs |-> raw]
                /\ limit = MaxRetries

Spec == Init /\ [][Next]_vars

-----------------------------------------------------------------------------
(* Specification SpecKeys: every rule list, one page a query, items with   *)
(* every kind of hash (absent, None, empty, set)                           *)

KeyHashes == {Absent, PyNone, PyStr(""), PyStr("h1"), PyStr("1_X")}

KeyIds == {PyInt(1), PyInt(2)}

KeyNumeros == {PyStr("X"), PyStr("Y")}

KeyItems == ItemsOf(KeyHashes, KeyIds, KeyNumeros)

InitKeys ==
    \E raw \in RawParams :
        \E rs \in RuleLists({raw}) :
            \E a \in ApisOf(rs, KeyItems, KeyPages, MaxPageLen) :
                /\ InitWith(rs, a, {TRUE})
                /\ given = [i \in DOMAIN rs |-> raw]
                /\ limit = MaxRetries

SpecKeys == InitKeys /\ [][Next]_vars

(* Specification SpecDedup: one rule whose single page holds up to DedupPageLen
   items out of KeyItems, so that remove_duplicates meets every arrangement of
   hashed and hashless items *)

InitDedup ==
    \E raw \in RawParams :
        \E rs \in UNION {RuleListsOfLen(n, {raw}) : n \in 0..SoloRules} :
            \E a \in ApisOf(rs, KeyItems, KeyPages, DedupPageLen) :
                /\ InitWith(rs, a, {TRUE})
                /\ given = [i \in DOMAIN rs |-> raw]
                /\ limit = MaxRetries

SpecDedup == InitDedup /\ [][Next]_vars

(* Specification SpecLive: the calls of Spec, where the program keeps running: a
   statement that can execute does, and a request sent is answered. The endpoint
   answers 429 at most MaxRetries times a rule and holds at most MaxPages pages
   for a query *)

SpecLive == Init /\ [][Next]_vars /\ WF_vars(Next)

(* Specification SpecBodies: one rule, the endpoint contents of Spec, and answers
   with status 200 whose "items" is no list *)

InitBodies ==
    \E raw \in RawParams :
        \E rs \in UNION {RuleListsOfLen(n, {raw}) : n \in 0..SoloRules} :
            \E a \in ApisOf(rs, Items, MaxPages, MaxPageLen) :
                /\ InitWith(rs, a, BOOLEAN)
                /\ given = [i \in DOMAIN rs |-> raw]
                /\ limit = MaxRetries

SpecBodies == InitBodies /\ [][NextBodies]_vars

(* Specification SpecRetry: one rule, the endpoint contents of Spec, and up to
   LongRetries 429 answers, so that a page is answered 429 several times in a
   row *)

InitRetry ==
    \E raw \in RawParams :
        \E rs \in UNION {RuleListsOfLen(n, {raw}) : n \in 0..SoloRules} :
            \E a \in ApisOf(rs, Items, MaxPages, MaxPageLen) :
                /\ InitWith(rs, a, BOOLEAN)
                /\ given = [i \in DOMAIN rs |-> raw]
                /\ limit = LongRetries

SpecRetry == InitRetry /\ [][Next]_vars

(* Specification SpecTwice: up to MaxCalls calls on one engine with the same rule
   list; the endpoint holds one page for a query, and answers each call with
   items, 429, another status or an exception independently of the call before *)

InitTwice ==
    \E raw \in RawParams :
        \E rs \in RuleLists({raw}) :
            \E a \in ApisOf(rs, Items, KeyPages, MaxPageLen) :
                /\ InitWith(rs, a, {TRUE})
                /\ given = [i \in DOMAIN rs |-> raw]
                /\ limit = MaxRetries

SpecTwice == InitTwice /\ [][NextTwice]_vars

(* Specification SpecParams: one rule constructed with any mapping of ParamKeys
   to ParamValues, run against the endpoint contents of Spec *)

ParamKeys == {"numeroOab", "ufOab"}

ParamValues == {PyNone, PyStr(""), PyStr("ES"), PyInt(0)}

\* the mappings a rule may be constructed with: any keys, any values
RawMappings == UNION {[K -> ParamValues] : K \in SUBSET ParamKeys}

InitParams ==
    \E n \in 0..SoloRules :
        \E f \in [1..n -> RuleTypes \X RuleOperators \X BOOLEAN \X RawMappings] :
            LET rs == [i \in 1..n |->
                          SearchRule(NameOf(i), f[i][1], f[i][2], f[i][3], f[i][4])]
            IN  \E a \in ApisOf(rs, Items, MaxPages, MaxPageLen) :
                    /\ InitWith(rs, a, BOOLEAN)
                    /\ given = [i \in 1..n |-> f[i][4]]
                    /\ limit = MaxRetries

SpecParams == InitParams /\ [][Next]_vars

-----------------------------------------------------------------------------
(* The identity key of the documentation: the content hash when present    *)
(* and non-empty, otherwise the pair (record id, case number)              *)

HasContentHash(pub) ==
    /\ pub["hash"] # Absent
    /\ pub["hash"] # PyNone
    /\ pub["hash"] # PyStr("")

IdentityKey(pub) ==
    IF HasContentHash(pub)
    THEN <<"hash", pub["hash"], Absent>>
    ELSE <<"pair", pub["id"], pub["numeroprocessocommascara"]>>

IdentityKeys(pubs) == {IdentityKey(pubs[i]) : i \in DOMAIN pubs}

\* the items of pubs whose identity key is in keys, in the order of pubs
KeptByKey(pubs, keys) ==
    LET Kept(pub) == IdentityKey(pub) \in keys IN SelectSeq(pubs, Kept)

\* the items of pubs whose identity key is not in keys, in the order of pubs
DroppedByKey(pubs, keys) ==
    LET Kept(pub) == IdentityKey(pub) \notin keys IN SelectSeq(pubs, Kept)

EnabledRules == {i \in DOMAIN rules : rules[i].enabled}

-----------------------------------------------------------------------------
\* C1: the list execute_rules returns holds no two items with the same identity
\* key (the content hash when present and non-empty, else the pair of record id
\* and case number)
C1_NoDuplicateKeys ==
    pc = "done" =>
        \A i, j \in DOMAIN final_publications :
            i # j => IdentityKey(final_publications[i])
                         # IdentityKey(final_publications[j])

\* the include accumulator held two items lacking a hash with the same id and case
\* number, and the call returned one of them
C1_Witness ==
    /\ pc = "done"
    /\ Len(include_publications) = 2
    /\ ~HasContentHash(include_publications[1])
    /\ include_publications[1] # include_publications[2]
    /\ IdentityKey(include_publications[1]) = IdentityKey(include_publications[2])
    /\ Len(final_publications) = 1

\* C2: when an enabled Exclude rule returned items, the result is the deduplicated
\* include list without the items whose identity key is the identity key of an
\* excluded item, and with no other item removed
C2_ExclusionByIdentityKey ==
    (pc = "done" /\ exclude_publications # <<>>) =>
        final_publications =
            DroppedByKey(remove_duplicates(include_publications),
                         IdentityKeys(exclude_publications))

\* C3: with two enabled Include/And rules and no other enabled rule, the include
\* accumulator after both is the first rule's items whose identity key occurs in
\* the second rule's items, in the first rule's order
C3_AndIsIntersection ==
    (/\ Len(returned) = 2
     /\ \A i \in EnabledRules :
            rules[i].rule_type = "include" /\ rules[i].operator = "and") =>
        include_publications =
            KeptByKey(returned[1].items, IdentityKeys(returned[2].items))

\* C4: deduplication and exclusion use one identity key: an Include rule's only
\* item x is removed by an Exclude rule's only item y exactly when
\* remove_duplicates keeps one of x and y
C4_OneIdentityKey ==
    (/\ pc = "done"
     /\ Len(include_publications) = 1
     /\ Len(exclude_publications) = 1) =>
        LET x == include_publications[1]
            y == exclude_publications[1]
        IN  /\ (final_publications = <<>>) <=> (IdentityKey(x) = IdentityKey(y))
            /\ (Len(remove_duplicates(<<x, y>>)) = 1)
                   <=> (IdentityKey(x) = IdentityKey(y))

-----------------------------------------------------------------------------
(* Reading the log of the current search_with_params call *)

IsRequest(e) == e.ev = "request"

\* the page numbers of the requests of l, in order
PagesRequested(l) ==
    LET reqs == SelectSeq(l, IsRequest)
    IN  [k \in DOMAIN reqs |-> reqs[k].params["pagina"].n]

\* a response other than 200 and 429, or requests.get raising
IsFailure(e) ==
    \/ e.ev = "raised"
    \/ e.ev = "response" /\ e.status \notin {200, 429}

Is429(e) == e.ev = "response" /\ e.status = 429

\* every request of l was answered 200
AllOk(l) == \A i \in DOMAIN l : ~IsFailure(l[i]) /\ ~Is429(l[i])

RECURSIVE Flatten(_)
\* the concatenation of the pages of a sequence of pages
Flatten(pages) ==
    IF pages = <<>> THEN <<>> ELSE Head(pages) \o Flatten(Tail(pages))

\* the last event of l that is a request or a response (or requests.get raising)
RECURSIVE LastExchange(_)
LastExchange(l) ==
    IF l = <<>> THEN [ev |-> "none"]
    ELSE IF l[Len(l)].ev \in {"request", "response", "raised"} THEN l[Len(l)]
    ELSE LastExchange(SubSeq(l, 1, Len(l) - 1))

\* the last request of l
RECURSIVE LastRequest(_)
LastRequest(l) ==
    IF l = <<>> THEN [ev |-> "none"]
    ELSE IF IsRequest(l[Len(l)]) THEN l[Len(l)]
    ELSE LastRequest(SubSeq(l, 1, Len(l) - 1))

-----------------------------------------------------------------------------
\* C5: when every page of a rule's query is answered 200, pages 1..n with items
\* and page n+1 without, search_with_params asks for exactly the pages 1, ..., n+1
\* in that order, returns the concatenation of the n pages, and sends nothing
\* after the empty page
C5_PagesInOrder ==
    AllOk(log) =>
        /\ pc \in {"page", "wait", "fold"} =>
              /\ PagesRequested(log) = [k \in 1..Len(PagesRequested(log)) |-> k]
              /\ Len(PagesRequested(log)) <= Len(api[idx]) + 1
        /\ pc = "fold" =>
              /\ PagesRequested(log) = [k \in 1..(Len(api[idx]) + 1) |-> k]
              /\ publications = Flatten(api[idx])
              /\ log[Len(log)] = [ev |-> "response", status |-> 200, items |-> <<>>]

\* a query of MaxPages pages with different items was fetched to its end
C5_Witness ==
    /\ pc = "fold"
    /\ AllOk(log)
    /\ Len(api[idx]) = MaxPages
    /\ api[idx][1] # api[idx][MaxPages]
    /\ Len(PagesRequested(log)) = MaxPages + 1

\* C6: a 429 answer leaves the page counter and the accumulated items unchanged,
\* the next request, after the sleep of 10, carries the same parameters; the page
\* counter changes only on a 200 answer with items, and then by exactly 1
C6_RetrySamePage ==
    [][/\ (pc = "wait" /\ retries' # retries) =>
              /\ search_params' = search_params
              /\ publications' = publications
              /\ errors' = errors
              /\ pc' = "page"
              /\ log'[Len(log')] = [ev |-> "sleep", tenths |-> 10 * 10]
       /\ (pc = "page" /\ pc' = "wait" /\ Is429(LastExchange(log))) =>
              /\ IsRequest(log'[Len(log')])
              /\ log'[Len(log')].params = LastRequest(log).params
       /\ (pc \in {"page", "wait"} /\ search_params' # search_params) =>
              /\ pc = "wait"
              /\ LastExchange(log') =
                     [ev |-> "response", status |-> 200,
                      items |-> PageItems(search_params["pagina"].n)]
              /\ LastExchange(log').items # <<>>
              /\ search_params' =
                     DictSet(search_params, "pagina",
                             PyInt(search_params["pagina"].n + 1))
      ]_vars

\* page 2 was answered 429 after page 1 had brought items, and asked for again
C6_Witness ==
    /\ pc = "wait"
    /\ publications # <<>>
    /\ \E i \in DOMAIN log : Is429(log[i])
    /\ PagesRequested(log) = <<1, 2, 2>>

\* C7: a status other than 200 and 429, or a transport failure, ends the rule's
\* pagination: nothing is requested after it, one error with the rule's name is
\* shown, and the items of the pages fetched before it are returned as they are
C7_FailureReturnsPartial ==
    (pc = "fold" /\ \E i \in DOMAIN log : IsFailure(log[i])) =>
        LET fetched == Len(PagesRequested(log))
                         - Cardinality({i \in DOMAIN log : Is429(log[i])}) - 1
        IN  /\ IsFailure(log[Len(log)])
            /\ Cardinality({i \in DOMAIN log : IsFailure(log[i])}) = 1
            /\ Cardinality({i \in DOMAIN errors :
                               errors[i].name = rules[idx].name}) = 1
            /\ errors[Len(errors)].name = rules[idx].name
            /\ fetched \in 0..Len(api[idx])
            /\ publications = Flatten(SubSeq(api[idx], 1, fetched))

\* the second page of a query of two pages failed: the first page is returned
C7_Witness ==
    /\ pc = "fold"
    /\ IsFailure(log[Len(log)])
    /\ Len(api[idx]) = 2
    /\ publications = api[idx][1]
    /\ errors # <<>>

-----------------------------------------------------------------------------
(* The accumulators as the lists returned so far determine them *)

RECURSIVE IncludeAfter(_)
\* the include accumulator after the first k returned lists were folded
IncludeAfter(k) ==
    IF k = 0 THEN <<>>
    ELSE LET rule == rules[returned[k].rule]
         IN  IF rule.rule_type = "include"
             THEN FoldInclude(rule, IncludeAfter(k - 1), returned[k].items)
             ELSE IncludeAfter(k - 1)

RECURSIVE ExcludeAfter(_)
\* the exclude accumulator after the first k returned lists were folded
ExcludeAfter(k) ==
    IF k = 0 THEN <<>>
    ELSE IF rules[returned[k].rule].rule_type = "exclude"
         THEN ExcludeAfter(k - 1) \o returned[k].items
         ELSE ExcludeAfter(k - 1)

\* the rules whose pagination ended in a failure
FailedRules == {i \in DOMAIN rules : \E k \in DOMAIN errors : errors[k].name = rules[i].name}

\* C8: a rule's failure does not abort execute_rules: the call never stops before
\* its end, every enabled rule is queried, the lists the rules returned (partial
\* for a failed rule) are folded by kind and operator, and a list is returned
C8_FailureIsolated ==
    /\ pc # "done" => ENABLED Next
    /\ pc = "done" =>
          /\ EnabledRules \subseteq queried
          /\ {returned[k].rule : k \in DOMAIN returned} = EnabledRules
          /\ \A k \in DOMAIN returned :
                 \A m \in DOMAIN returned : k < m => returned[k].rule < returned[m].rule
          /\ include_publications = IncludeAfter(Len(returned))
          /\ exclude_publications = ExcludeAfter(Len(returned))
          /\ final_publications =
                 FinalPublications(include_publications, exclude_publications)

\* the first rule failed after its first page, the second rule ran all the same,
\* and the result holds an item of each
C8_Witness ==
    /\ pc = "done"
    /\ FailedRules = {1}
    /\ Len(returned) = 2
    /\ returned[1].items # <<>>
    /\ returned[2].items # <<>>
    /\ Len(final_publications) = 2

\* C9: a disabled rule sends no request and adds no item: skipping it changes
\* nothing but the loop index, and a call with only disabled rules returns an
\* empty list without any request
C9_DisabledRuleInert ==
    [][/\ (pc = "rules" /\ idx <= Len(rules) /\ ~rules[idx].enabled) =>
              /\ idx' = idx + 1
              /\ UNCHANGED <<rules, given, limit, earlier, api, cb, pc, rule_params, search_params,
                             publications, include_publications,
                             exclude_publications, final_publications, inflight,
                             log, errors, queried, returned, retries>>
       /\ queried' \subseteq {i \in DOMAIN rules : rules[i].enabled}
       /\ \A k \in DOMAIN returned' : rules[returned'[k].rule].enabled
       /\ (pc' = "done" /\ \A i \in DOMAIN rules : ~rules[i].enabled) =>
              /\ final_publications' = <<>>
              /\ queried' = {}
              /\ inflight' = <<>>
      ]_vars

\* a call with a disabled rule before an enabled one returned the enabled rule's item
C9_Witness ==
    /\ pc = "done"
    /\ Len(rules) = 2
    /\ ~rules[1].enabled
    /\ rules[2].enabled
    /\ queried = {2}
    /\ final_publications # <<>>

\* C10: with no enabled Include rule and at least one enabled Exclude rule,
\* execute_rules returns an empty list whatever the Exclude rules fetched
C10_OnlyExcludesIsEmpty ==
    (/\ pc = "done"
     /\ \A i \in EnabledRules : rules[i].rule_type # "include"
     /\ \E i \in EnabledRules : rules[i].rule_type = "exclude") =>
        final_publications = <<>>

\* two Exclude rules fetched items and nothing was returned
C10_Witness ==
    /\ pc = "done"
    /\ Len(rules) = 2
    /\ \A i \in DOMAIN rules : rules[i].enabled /\ rules[i].rule_type = "exclude"
    /\ Len(exclude_publications) >= 2
    /\ final_publications = <<>>

\* the items of pubs that are the first of their identity key, in the order of pubs
FirstOccurrences(pubs) ==
    LET First(i) == \A j \in 1..(i - 1) : IdentityKey(pubs[j]) # IdentityKey(pubs[i])
        F[i \in 0..Len(pubs)] ==
            IF i = 0 THEN <<>>
            ELSE IF First(i) THEN Append(F[i - 1], pubs[i]) ELSE F[i - 1]
    IN  F[Len(pubs)]

\* C11: remove_duplicates is idempotent: applied to its own result on the include
\* accumulator of a finished call, it returns that result unchanged
C11_DedupIdempotent ==
    pc = "done" =>
        LET once == remove_duplicates(include_publications)
        IN  remove_duplicates(once) = once

\* the accumulator held three items, hashed and hashless, two of which
\* remove_duplicates dropped
C11_Witness ==
    /\ pc = "done"
    /\ Len(include_publications) = 3
    /\ \E i, j \in 1..3 : /\ HasContentHash(include_publications[i])
                          /\ ~HasContentHash(include_publications[j])
    /\ Len(remove_duplicates(include_publications)) = 1

\* C12: remove_duplicates returns the first occurrence of every identity key, in
\* the order of its input: an item is dropped only for an earlier item with the
\* same identity key
C12_FirstOccurrences ==
    pc = "done" =>
        remove_duplicates(include_publications) = FirstOccurrences(include_publications)

\* the entries execute_rules and search_with_params add to a query
AddedKeys == {"_rule_name", "itensPorPagina", "pagina"}

\* C13: the parameters of a constructed rule are exactly the entries of the given
\* mapping whose value is neither None nor the empty string, values unchanged
C13_EffectiveParameters ==
    \A i \in DOMAIN rules :
        /\ DOMAIN rules[i].parameters =
               {k \in DOMAIN given[i] : given[i][k] \notin {PyNone, PyStr("")}}
        /\ \A k \in DOMAIN rules[i].parameters :
               rules[i].parameters[k] = given[i][k]

\* a rule given an empty numeroOab and the number 0 as ufOab was queried with ufOab
\* only; a rule given {numeroOab: "", ufOab: "ES"} holds only ufOab
C13_Witness ==
    /\ pc = "wait"
    /\ given[idx] = [numeroOab |-> PyStr(""), ufOab |-> PyInt(0)]
    /\ DOMAIN rules[idx].parameters = {"ufOab"}
    /\ PostInit([numeroOab |-> PyStr(""), ufOab |-> PyStr("ES")])
           = [ufOab |-> PyStr("ES")]

\* C14: no step of execute_rules changes a rule (name, type, operator, enabled flag,
\* parameters), and the rule name tag and the page entries never appear in a rule's
\* own parameters
C14_RulesNeverMutated ==
    [][/\ rules' = rules
       /\ \A i \in DOMAIN rules' :
              DOMAIN rules'[i].parameters \cap AddedKeys = {}
      ]_vars

\* a call whose rule met a 429 answer and then a failure has ended, and the copies
\* it queried with hold the added entries
C14_Witness ==
    /\ pc = "done"
    /\ retries > 0
    /\ errors # <<>>
    /\ queried = {1}
    /\ AddedKeys \subseteq DOMAIN search_params
    /\ rules[1].parameters # <<>>

\* C15: a request carries the rule's parameters, itensPorPagina = 50 and a pagina
\* from 1 on, and no other entry
C15_RequestParameters ==
    pc = "wait" =>
        LET sent == inflight[Len(inflight)]
            own == rules[idx].parameters
        IN  /\ DOMAIN sent = DOMAIN own \cup {"itensPorPagina", "pagina"}
            /\ \A k \in DOMAIN own : sent[k] = own[k]
            /\ sent["itensPorPagina"] = PyInt(ItensPorPagina)
            /\ sent["pagina"].t = "int" /\ sent["pagina"].n >= FirstPage

\* C16: when the endpoint answers 429 finitely often and every query has finitely
\* many non-empty pages, execute_rules eventually returns
C16_EventuallyReturns == <>(pc = "done")

\* a call with two enabled rules returned after both had been queried, the second
\* having met a 429 answer
C16_Witness ==
    /\ pc = "done"
    /\ queried = {1, 2}
    /\ Len(returned) = 2
    /\ retries > 0

\* the events of l2 that follow those of l1
NewEvents(l1, l2) == {l2[k] : k \in (Len(l1) + 1)..Len(l2)}

\* an answer with status 200 whose "items" is no list
IsNonListAnswer(e) == e.ev = "response" /\ e.status = 200 /\ "body" \in DOMAIN e

\* C17: an answer with status 200 whose "items" is missing or no list is handled
\* as an empty page is: the pagination ends with the items accumulated, no error
\* is reported, and no further request is sent for the rule
C17_NonListLikeEmpty ==
    [][(pc = "wait" /\ \E e \in NewEvents(log, log') : IsNonListAnswer(e)) =>
           /\ pc' = "fold"
           /\ errors' = errors
           /\ publications' = publications
           /\ log' = Append(log, CHOOSE e \in NewEvents(log, log') : IsNonListAnswer(e))
      ]_vars

IsExchange(e) == e.ev \in {"request", "response", "raised"}

RECURSIVE TrailingRetries(_)
\* the number of requests at the end of l that were answered 429 one after another
TrailingRetries(l) ==
    LET ex == SelectSeq(l, IsExchange)
        n == Len(ex)
    IN  IF n >= 2 /\ Is429(ex[n])
        THEN 1 + TrailingRetries(SubSeq(ex, 1, n - 2))
        ELSE 0

\* C18: a 429 answer reports no error and does not end the pagination, however
\* many came before it: after k answers 429 in a row the rule has no error, the
\* request can be sent again, and the next step sends it with the same parameters
C18_NoRetryCeiling ==
    [][/\ (pc = "wait" /\ \E e \in NewEvents(log, log') : Is429(e)) =>
              /\ errors' = errors
              /\ pc' = "page"
              /\ TrailingRetries(log') = TrailingRetries(SubSeq(log, 1, Len(log) - 1)) + 1
       /\ (pc = "page" /\ TrailingRetries(log) >= 1) =>
              /\ \A j \in DOMAIN errors : errors[j].name # rules[idx].name
              /\ ENABLED SendRequest
              /\ pc' = "wait"
              /\ LastRequest(log').params = LastRequest(log).params
      ]_vars

\* page 2 was answered 429 LongRetries times in a row and is asked for again
C18_Witness ==
    /\ pc = "wait"
    /\ TrailingRetries(SubSeq(log, 1, Len(log) - 1)) = LongRetries
    /\ search_params["pagina"].n = 2
    /\ errors = <<>>

RECURSIVE IsSubsequence(_, _)
\* a is b with some items left out
IsSubsequence(a, b) ==
    IF a = <<>> THEN TRUE
    ELSE IF b = <<>> THEN FALSE
    ELSE IF Head(a) = Head(b) THEN IsSubsequence(Tail(a), Tail(b))
    ELSE IsSubsequence(a, Tail(b))

\* an enabled Include rule has run before the current one
IncludeRanBefore ==
    \E k \in DOMAIN returned : rules[returned[k].rule].rule_type = "include"

\* C19: an Include/And rule's items become the include accumulator when no Include
\* rule has run before it; when one has, whatever it returned, the accumulator
\* after the And rule is a subsequence of the accumulator before it
C19_AndNeverGains ==
    [][(/\ pc = "fold"
        /\ rules[idx].rule_type = "include"
        /\ rules[idx].operator = "and") =>
           IF IncludeRanBefore
           THEN IsSubsequence(include_publications', include_publications)
           ELSE include_publications' = publications
      ]_vars

\* C20: an Exclude rule's items are appended to the exclude accumulator whatever
\* its operator and leave the include accumulator as it is, and the list returned
\* is the one computed from the lists fetched without reading an Exclude rule's
\* operator
C20_ExcludeAlwaysUnion ==
    [][/\ (pc = "fold" /\ rules[idx].rule_type = "exclude") =>
              /\ exclude_publications' = exclude_publications \o publications
              /\ include_publications' = include_publications
       /\ pc' = "done" =>
              final_publications' =
                  FinalPublications(IncludeAfter(Len(returned')),
                                    ExcludeAfter(Len(returned')))
      ]_vars

\* two Exclude rules with the operator And fetched different items, and both
\* lists are in the exclude accumulator
C20_Witness ==
    /\ pc = "done"
    /\ Len(rules) = 2
    /\ \A i \in DOMAIN rules : /\ rules[i].enabled
                               /\ rules[i].rule_type = "exclude"
                               /\ rules[i].operator = "and"
    /\ Len(returned) = 2
    /\ returned[1].items # <<>>
    /\ returned[2].items # <<>>
    /\ HashSet(returned[1].items) \cap HashSet(returned[2].items) = {}
    /\ exclude_publications = returned[1].items \o returned[2].items

\* the lists search_with_params returned during the call, one after another
ReturnedItems == Flatten([k \in DOMAIN returned |-> returned[k].items])

\* C21: when every enabled rule is Include/Or, execute_rules returns
\* remove_duplicates of the rules' lists concatenated in rule order, each list in
\* page order
C21_OrIsDedupOfConcatenation ==
    (/\ pc = "done"
     /\ \A i \in EnabledRules :
            rules[i].rule_type = "include" /\ rules[i].operator = "or") =>
        final_publications = remove_duplicates(ReturnedItems)

\* two Include/Or rules fetched different items first and a common item on their
\* second page, and the first rule's items lead the result
C21_Witness ==
    /\ pc = "done"
    /\ Len(rules) = 2
    /\ \A i \in DOMAIN rules : /\ rules[i].enabled
                               /\ rules[i].rule_type = "include"
                               /\ rules[i].operator = "or"
    /\ Len(returned) = 2
    /\ Len(returned[1].items) = 2
    /\ Len(returned[2].items) = 2
    /\ returned[1].items[1] # returned[1].items[2]
    /\ returned[2].items[1] = returned[1].items[2]
    /\ final_publications = returned[1].items

\* an answer with status 200 that brought items
IsItemsAnswer(e) ==
    e.ev = "response" /\ e.status = 200 /\ "items" \in DOMAIN e /\ e.items # <<>>

\* the pages of the current rule answered with items so far
PagesAnswered(l) == Len(SelectSeq(l, IsItemsAnswer))

\* C22: at most one request is in flight; a request is sent only when none is in
\* flight, every earlier request of the rule has been answered, its page is the
\* one after the pages answered with items, and every earlier enabled rule's
\* search has returned
C22_StrictlySequential ==
    [][/\ Len(inflight') <= 1
       /\ Len(inflight') > Len(inflight) =>
              /\ inflight = <<>>
              /\ LastExchange(log).ev # "request"
              /\ inflight'[1]["pagina"].n = PagesAnswered(log) + FirstPage
              /\ \A i \in EnabledRules :
                     i < idx => \E k \in DOMAIN returned : returned[k].rule = i
              /\ \A i \in queried' : i <= idx
      ]_vars

\* the second of two enabled rules asks for its page 2 after the first rule's
\* search has returned
C22_Witness ==
    /\ pc = "wait"
    /\ idx = 2
    /\ rules[1].enabled
    /\ Len(returned) = 1
    /\ returned[1].items # <<>>
    /\ Len(inflight) = 1
    /\ inflight[1]["pagina"].n = 2

\* C23: with a callback, every request, first attempt or retry, comes right after
\* the callback's message for that rule and page, and every 429 answer is followed
\* by one rate-limit message, then the sleep, before anything else
C23_ProgressBeforeRequest ==
    cb =>
        \A i \in DOMAIN log :
            /\ IsRequest(log[i]) =>
                   /\ i > 1
                   /\ log[i - 1] = [ev |-> "progress", msg |-> "pagina",
                                     name |-> RuleNameOf(log[i].params),
                                     pagina |-> log[i].params["pagina"].n]
            /\ Is429(log[i]) =>
                   /\ i + 2 <= Len(log)
                   /\ log[i + 1] = [ev |-> "progress", msg |-> "rate_limit"]
                   /\ log[i + 2].ev = "sleep"

\* with a callback, page 2 is asked for again after a 429 answer
C23_Witness ==
    /\ cb
    /\ pc = "wait"
    /\ TrailingRetries(SubSeq(log, 1, Len(log) - 1)) = 1
    /\ search_params["pagina"].n = 2

\* the parameters of the request for page p of rule i
RequestFor(i, p) ==
    DictSet(DictSet(DictSet(rules[i].parameters, "_rule_name", PyStr(rules[i].name)),
                    "itensPorPagina", PyInt(ItensPorPagina)),
            "pagina", PyInt(p))

\* C24: a call made after another on the same engine sends the requests its rules
\* and the answers so far determine, and returns the list computed from the lists
\* fetched in this call alone; when these are the lists of the call before, it
\* returns what that call returned
C24_StatelessBetweenCalls ==
    [][/\ Len(inflight') > Len(inflight) =>
              inflight'[1] = RequestFor(idx, PagesAnswered(log) + FirstPage)
       /\ (pc' = "done" /\ earlier' # <<>>) =>
              /\ final_publications' =
                     FinalPublications(IncludeAfter(Len(returned')),
                                       ExcludeAfter(Len(returned')))
              /\ returned' = earlier'[1].returned =>
                     final_publications' = earlier'[1].final
      ]_vars

\* a second call fetched what the first had fetched and returned the same list of
\* two items
C24_Witness ==
    /\ pc = "done"
    /\ Len(earlier) = 1
    /\ returned = earlier[1].returned
    /\ Len(final_publications) = 2
    /\ final_publications = earlier[1].final

\* the items the enabled Include rules fetched during the call
IncludeFetched ==
    UNION {{returned[k].items[m] : m \in DOMAIN returned[k].items} :
              k \in {j \in DOMAIN returned :
                        /\ rules[returned[j].rule].enabled
                        /\ rules[returned[j].rule].rule_type = "include"}}

\* C25: every item execute_rules returns was fetched by an enabled Include rule in
\* this call, and the list returned is a subsequence of the include accumulator
C25_ResultFromIncludes ==
    pc = "done" =>
        /\ \A j \in DOMAIN final_publications :
               final_publications[j] \in IncludeFetched
        /\ IsSubsequence(final_publications, include_publications)

\* an Exclude rule fetched an item no Include rule fetched, and the call returned
\* the Include rule's item only
C25_Witness ==
    /\ pc = "done"
    /\ Len(rules) = 2
    /\ rules[1].enabled /\ rules[1].rule_type = "exclude"
    /\ rules[2].enabled /\ rules[2].rule_type = "include"
    /\ Len(returned) = 2
    /\ \E m \in DOMAIN returned[1].items : returned[1].items[m] \notin IncludeFetched
    /\ final_publications # <<>>
    /\ final_publications = returned[2].items

\* seq with its element at position i moved to position j
Move(seq, i, j) ==
    LET rest == [k \in 1..(Len(seq) - 1) |-> IF k < i THEN seq[k] ELSE seq[k + 1]]
    IN  [k \in 1..Len(seq) |->
            IF k < j THEN rest[k] ELSE IF k = j THEN seq[i] ELSE rest[k - 1]]

RECURSIVE IncludeOf(_, _, _)
\* the include accumulator after the first k of the rules rs have fetched the
\* lists ls
IncludeOf(rs, ls, k) ==
    IF k = 0 THEN <<>>
    ELSE IF rs[k].rule_type = "include"
         THEN FoldInclude(rs[k], IncludeOf(rs, ls, k - 1), ls[k])
         ELSE IncludeOf(rs, ls, k - 1)

RECURSIVE ExcludeOf(_, _, _)
\* the exclude accumulator after the first k of the rules rs have fetched the
\* lists ls
ExcludeOf(rs, ls, k) ==
    IF k = 0 THEN <<>>
    ELSE IF rs[k].rule_type = "exclude"
         THEN ExcludeOf(rs, ls, k - 1) \o ls[k]
         ELSE ExcludeOf(rs, ls, k - 1)

\* what execute_rules returns when the rules rs fetch the lists ls
ResultOf(rs, ls) ==
    FinalPublications(IncludeOf(rs, ls, Len(rs)), ExcludeOf(rs, ls, Len(rs)))

\* the rules whose search returned during the call, and the lists returned
RulesRun == [k \in DOMAIN returned |-> rules[returned[k].rule]]

ListsFetched == [k \in DOMAIN returned |-> returned[k].items]

\* C26: the list execute_rules returns is the one it would return with any of its
\* Exclude rules moved to any other position, every rule fetching the same list
C26_ExcludePositionIrrelevant ==
    pc = "done" =>
        \A i, j \in DOMAIN returned :
            RulesRun[i].rule_type = "exclude" =>
                final_publications =
                    ResultOf(Move(RulesRun, i, j), Move(ListsFetched, i, j))

\* an Exclude rule ahead of an Include rule removed one of the two items the
\* Include rule fetched after it
C26_Witness ==
    /\ pc = "done"
    /\ Len(returned) = 2
    /\ RulesRun[1].rule_type = "exclude"
    /\ RulesRun[2].rule_type = "include"
    /\ Len(returned[1].items) = 1
    /\ Len(returned[2].items) = 2
    /\ returned[2].items[1] = returned[1].items[1]
    /\ final_publications = <<returned[2].items[2]>>

====
